---------------------------- MODULE Spec2Model ----------------------------
(***************************************************************************)
(* The ClickHouse batch writer (services.ClickHouse: Add, Close, store,    *)
(* makeTable) and the one-shot broadcast gate (services.AccessLock) of     *)
(* torrent-http-proxy, as state machines.                                  *)
(*                                                                         *)
(* Goroutines are processes with a program counter; every step that reads  *)
(* or writes shared memory (s.batch, s.mux, s.storeMux, s.init, al.C,      *)
(* al.closed, al.mux) is one action, so that the unsynchronised reads of   *)
(* s.batch in Add and Close interleave with the writes the way the Go      *)
(* scheduler allows: a read that races with a write sees the value before  *)
(* or the value after it. Statements that touch only what the goroutine    *)
(* holds a mutex for, or only its locals, are taken together with the      *)
(* shared access they follow: the append with its Unlock, the body of      *)
(* store from s.db.Get to the return under storeMux.                       *)
(***************************************************************************)
EXTENDS Integers, Sequences, FiniteSets, TLC

(* ------------------------------ bounds -------------------------------- *)
NumProducers == 2   \* concurrent goroutines calling Add
MaxAdds      == 2   \* Add calls over the whole run, several producers
MaxTestAdds  == 5   \* Add calls of the single producer of TestClickHouse
MaxBatch     == 2   \* largest configured --clickhouse-batch-size
MaxClose     == 1   \* Close calls over the whole run, several producers
MaxFailures  == 1   \* store steps that fail over the whole run
NumUnlockers == 2   \* goroutines calling AccessLock.Unlock
NumWaiters   == 2   \* goroutines receiving on AccessLock.Unlocked()
MaxUnlocks   == 3   \* Unlock calls over the whole run

Producers == 1..NumProducers
NoOwner   == 0      \* a sync.Mutex nobody holds
NoFlush   == 0

VARIABLES
    \* configuration, fixed at construction (NewClickHouse) or by the caller
    batchSize,      \* s.batchSize
    replicated,     \* s.replicated
    nprod,          \* how many goroutines call Add
    target,         \* how many Add calls the callers make in all
    script,         \* "free": any caller behaviour; "test": the sequence of TestClickHouse
    faultBudget,    \* how many store steps may fail
    \* ClickHouse
    batch,          \* s.batch, a sequence of record ids
    mux,            \* s.mux: the producer holding it, or NoOwner
    storeMux,       \* s.storeMux: the index of the store call holding it, or NoFlush
    initDone,       \* s.init (sync.Once) has fired
    \* goroutines
    pc,             \* pc[p]: where producer p is inside Add
    rec,            \* rec[p]: the id of the record p is adding
    flushes,        \* every call of store so far, in call order
    cpc,            \* where the closing goroutine is inside Close
    cflush,         \* the index in flushes of the store call Close is waiting in
    \* observations
    calls,          \* Add calls made (record ids are 1..calls)
    appended,       \* ids of the records Add has appended to s.batch
    addRet,         \* addRet[id]: what the Add of record id returned, once it has
    closeCalls,     \* Close calls made
    closeRet,       \* per Close call that returned: its store call, and what Close returned
    failures,       \* store steps that have failed
    makeTableCalls, \* executions of makeTable
    logged,         \* store calls whose error the flush goroutine logged
    lateIds,        \* ids of the records whose Add was called after a Close returned
    overlap,        \* some Add ran during or after a Close call
    \* AccessLock
    chClosed,       \* al.C is closed
    closed,         \* al.closed
    amux,           \* al.mux: the unlocker holding it, or NoOwner
    upc,            \* upc[u]: where unlocker u is inside Unlock
    wpc,            \* wpc[w]: where waiter w is
    closeCount,     \* executions of close(al.C)
    panicked,       \* close of a closed channel
    unlockCalls,    \* Unlock calls made
    unlockReturns,  \* Unlock calls returned
    spurious        \* a receive on al.C completed before any Unlock call was made

cfgVars  == <<batchSize, replicated, nprod, target, script, faultBudget>>
chVars   == <<batch, mux, storeMux, initDone>>
procVars == <<pc, rec, flushes, cpc, cflush>>
obsVars  == <<calls, appended, addRet, closeCalls, closeRet, failures, makeTableCalls,
              logged, lateIds, overlap>>
gateVars == <<chClosed, closed, amux, upc, wpc, closeCount, panicked,
              unlockCalls, unlockReturns, spurious>>
vars     == <<cfgVars, chVars, procVars, obsVars, gateVars>>


(* ------------------------- ClickHouse: construction ------------------- *)
\* NewClickHouse: an empty batch of capacity batchSize, both mutexes free,
\* the Once not fired.
NewClickHouse ==
    /\ batch = <<>>
    /\ mux = NoOwner
    /\ storeMux = NoFlush
    /\ initDone = FALSE

\* No goroutine has started and nothing has been observed.
Idle ==
    /\ pc = [p \in Producers |-> "idle"]
    /\ rec = [p \in Producers |-> 0]
    /\ flushes = <<>>
    /\ cpc = "idle"
    /\ cflush = NoFlush
    /\ calls = 0
    /\ appended = {}
    /\ addRet = <<>>
    /\ closeCalls = 0
    /\ closeRet = <<>>
    /\ failures = 0
    /\ makeTableCalls = 0
    /\ logged = {}
    /\ lateIds = {}
    /\ overlap = FALSE

\* NewAccessLock: an open unbuffered channel, closed = false, the mutex free.
NewAccessLock ==
    /\ chClosed = FALSE
    /\ closed = FALSE
    /\ amux = NoOwner
    /\ upc = [u \in 1..NumUnlockers |-> "idle"]
    /\ wpc = [w \in 1..NumWaiters |-> "idle"]
    /\ closeCount = 0
    /\ panicked = FALSE
    /\ unlockCalls = 0
    /\ unlockReturns = 0
    /\ spurious = FALSE

(* ------------------------------ ClickHouse.Add ------------------------ *)
Active == 1..nprod

\* A store call just made: it has not locked storeMux yet.
NewFlush(sr, kind) ==
    [sr |-> sr, kind |-> kind, pc |-> "lock", ran |-> <<>>, err |-> "nil",
     sql |-> <<>>, rows |-> <<>>]

\* A caller invokes Add(sr); the record gets the next id.
AddCall(p) ==
    /\ p \in Active
    /\ pc[p] = "idle"
    /\ calls < target
    /\ calls' = calls + 1
    /\ rec' = [rec EXCEPT ![p] = calls + 1]
    /\ pc' = [pc EXCEPT ![p] = "lock1"]
    /\ lateIds' = IF Len(closeRet) > 0 THEN lateIds \cup {calls + 1} ELSE lateIds
    /\ overlap' = (overlap \/ closeCalls > 0)
    /\ UNCHANGED <<cfgVars, chVars, flushes, cpc, cflush, appended, addRet,
                   closeCalls, closeRet, failures, makeTableCalls, logged,
                   gateVars>>

\* Mutant of ReturnNil: Add reports a store failure to its caller.
ReturnStoreError(id) ==
    addRet' = (id :> IF failures > 0 THEN "Failed to store" ELSE "nil") @@ addRet

\* Add returns nil to the caller of record id   (line 293).
ReturnNil(id) == addRet' = (id :> "nil") @@ addRet

\* s.mux.Lock()   (line 279)
AddLock1(p) ==
    /\ pc[p] = "lock1"
    /\ mux = NoOwner
    /\ mux' = p
    /\ pc' = [pc EXCEPT ![p] = "append"]
    /\ UNCHANGED <<cfgVars, batch, storeMux, initDone, rec, flushes, cpc, cflush,
                   obsVars, gateVars>>

\* Mutant of AddAppend: Add keeps s.mux after the append.
AddAppendKeepLock(p) ==
    /\ pc[p] = "append"
    /\ batch' = Append(batch, rec[p])
    /\ pc' = [pc EXCEPT ![p] = "check"]
    /\ appended' = appended \cup {rec[p]}
    /\ UNCHANGED <<cfgVars, mux, storeMux, initDone, rec, flushes, cpc, cflush, calls,
                   addRet, closeCalls, closeRet, failures, makeTableCalls, logged,
                   lateIds, overlap, gateVars>>

\* s.batch = append(s.batch, sr); s.mux.Unlock()   (lines 280-281)
AddAppend(p) ==
    /\ pc[p] = "append"
    /\ batch' = Append(batch, rec[p])
    /\ mux' = NoOwner
    /\ pc' = [pc EXCEPT ![p] = "check"]
    /\ appended' = appended \cup {rec[p]}
    /\ UNCHANGED <<cfgVars, storeMux, initDone, rec, flushes, cpc, cflush, calls,
                   addRet, closeCalls, closeRet, failures, makeTableCalls, logged,
                   lateIds, overlap, gateVars>>

\* The condition of line 282, as Add evaluates it: s.batch is read without
\* s.mux.
Full == Len(batch) >= batchSize

\* if len(s.batch) >= s.batchSize   (line 282); when it is false Add returns
\* nil (line 293).
AddCheck(p) ==
    /\ pc[p] = "check"
    /\ IF Full
       THEN /\ pc' = [pc EXCEPT ![p] = "go"]
            /\ UNCHANGED <<rec, addRet>>
       ELSE /\ pc' = [pc EXCEPT ![p] = "idle"]
            /\ rec' = [rec EXCEPT ![p] = 0]
            /\ ReturnNil(rec[p])
    /\ UNCHANGED <<cfgVars, chVars, flushes, cpc, cflush, calls, appended, closeCalls,
                   closeRet, failures, makeTableCalls, logged, lateIds, overlap,
                   gateVars>>

\* Mutant of AddGo: Add hands the batch over only once storeMux is free.
AddGoWhenStoreFree(p) ==
    /\ pc[p] = "go"
    /\ storeMux = NoFlush
    /\ flushes' = Append(flushes, NewFlush(batch, "async"))
    /\ pc' = [pc EXCEPT ![p] = "lock2"]
    /\ UNCHANGED <<cfgVars, chVars, rec, cpc, cflush, obsVars, gateVars>>

\* go func(b []*StatRecord) {...}(s.batch)   (lines 283-288): the argument
\* s.batch is read, again without s.mux, when the go statement runs.
AddGo(p) ==
    /\ pc[p] = "go"
    /\ flushes' = Append(flushes, NewFlush(batch, "async"))
    /\ pc' = [pc EXCEPT ![p] = "lock2"]
    /\ UNCHANGED <<cfgVars, chVars, rec, cpc, cflush, obsVars, gateVars>>

\* s.mux.Lock()   (line 289)
AddLock2(p) ==
    /\ pc[p] = "lock2"
    /\ mux = NoOwner
    /\ mux' = p
    /\ pc' = [pc EXCEPT ![p] = "reset"]
    /\ UNCHANGED <<cfgVars, batch, storeMux, initDone, rec, flushes, cpc, cflush,
                   obsVars, gateVars>>

\* s.batch = make([]*StatRecord, 0, s.batchSize); s.mux.Unlock(); return nil
\* (lines 290-293)
AddReset(p) ==
    /\ pc[p] = "reset"
    /\ batch' = <<>>
    /\ mux' = NoOwner
    /\ pc' = [pc EXCEPT ![p] = "idle"]
    /\ rec' = [rec EXCEPT ![p] = 0]
    /\ ReturnNil(rec[p])
    /\ UNCHANGED <<cfgVars, storeMux, initDone, flushes, cpc, cflush, calls, appended,
                   closeCalls, closeRet, failures, makeTableCalls, logged, lateIds,
                   overlap, gateVars>>

\* One step of producer p inside Add.
Add(p) ==
    \/ AddLock1(p)
    \/ AddAppend(p)
    \/ AddCheck(p)
    \/ AddGo(p)
    \/ AddLock2(p)
    \/ AddReset(p)

(* ----------------------------- ClickHouse.store ----------------------- *)
Flushes == 1..Len(flushes)

\* n copies of x, as a sequence.
Repeat(x, n) == [k \in 1..n |-> x]

\* makeTable (lines 171-215): the statements it sends with db.Exec, in
\* order: CREATE TABLE IF NOT EXISTS proxy_stat, and when replicated
\* CREATE TABLE IF NOT EXISTS proxy_stat_all.
makeTable == IF replicated THEN <<"create", "createAll">> ELSE <<"create">>

\* The store operations one store call of n records performs after the lock
\* when none fails (lines 227-271): s.db.Get, makeTable inside s.init.Do if
\* the Once has not fired, db.Ping, db.Begin, tx.Prepare, one stmt.Exec per
\* record, tx.Commit.
Steps(n) ==
    <<"get">> \o (IF initDone THEN <<>> ELSE makeTable)
              \o <<"ping", "begin", "prepare">> \o Repeat("exec", n) \o <<"commit">>

\* The error store returns when the operation fails (errors.Wrapf).
Wrapf(step) ==
    CASE step = "get"       -> "Failed to get ClickHouse DB"
      [] step = "create"    -> "Failed to create table"
      [] step = "createAll" -> "Failed to create table"
      [] step = "ping"      -> "Failed to ping"
      [] step = "begin"     -> "Failed to begin"
      [] step = "prepare"   -> "Failed to prepare"
      [] step = "exec"      -> "Failed to exec"
      [] step = "commit"    -> "Failed to commit"

\* Mutant of table: the insert always names the local table.
tableLocal == "proxy_stat"

\* The table the insert statement names (lines 245-248): proxy_stat, with
\* _all appended when replicated.
table == IF replicated THEN "proxy_stat_all" ELSE "proxy_stat"

\* The SQL statement an operation sends, as <<verb, table>>: the two
\* db.Exec of makeTable (lines 180-207 and 208-214) and tx.Prepare (lines
\* 249-254).
Statement(step) ==
    CASE step = "create"    -> <<"CREATE TABLE IF NOT EXISTS", "proxy_stat">>
      [] step = "createAll" -> <<"CREATE TABLE IF NOT EXISTS", "proxy_stat_all">>
      [] step = "prepare"   -> <<"INSERT INTO", table>>

\* The statements sent by the operations ran, in order.
Sql(ran) ==
    LET sends == SelectSeq(ran, LAMBDA x : x \in {"create", "createAll", "prepare"})
    IN  [j \in 1..Len(sends) |-> Statement(sends[j])]

\* Mutant of Inserted: the rows go in without a transaction, each stmt.Exec
\* that succeeded leaves its row in the table.
InsertedAutocommit(sr, ran, err) ==
    LET execs == Len(SelectSeq(ran, LAMBDA x : x = "exec"))
    IN  SubSeq(sr, 1, IF err = "Failed to exec" THEN execs - 1 ELSE execs)

\* The rows a store call leaves in the table: the inserts run inside the
\* transaction of line 241, so all of sr once tx.Commit succeeded (line
\* 271), and none when store returned an error before that: the
\* transaction is never committed.
Inserted(sr, ran, err) == IF err = "nil" THEN sr ELSE <<>>

\* Mutant of OnceFires: the Once is consumed as soon as store is past the
\* empty check, before s.db.Get.
OnceFiresBeforeGet(steps, k) == TRUE

\* Mutant of OnceFires: the Once fires only when makeTable succeeded.
OnceFiresOnSuccess(steps, k) ==
    k = 0 \/ steps[k] \notin {"get", "create", "createAll"}

\* s.init.Do (lines 231-233) fires the Once when it is reached, that is
\* unless s.db.Get failed, whatever makeTable returns; k is the operation of
\* steps that failed, 0 if none.
OnceFires(steps, k) == k = 0 \/ steps[k] # "get"

\* Which operation of a store call of n records fails: none (0), or while
\* the budget lasts any one of them.
FailAt(n) == IF failures < faultBudget THEN 0..Len(Steps(n)) ELSE {0}

\* Mutant of StoreLock: store does not wait for storeMux.
StoreLockNoWait(f) ==
    /\ flushes[f].pc = "lock"
    /\ storeMux' = f
    /\ flushes' = [flushes EXCEPT
                     ![f].pc = IF Len(flushes[f].sr) = 0 THEN "returned" ELSE "io"]
    /\ UNCHANGED <<cfgVars, batch, mux, initDone, pc, rec, cpc, cflush, obsVars,
                   gateVars>>

\* s.storeMux.Lock(); if len(sr) == 0 { return nil }   (lines 218-221): the
\* return on an empty batch comes before the defer is registered and
\* unlocks nothing.
StoreLock(f) ==
    /\ flushes[f].pc = "lock"
    /\ storeMux = NoFlush
    /\ storeMux' = f
    /\ flushes' = [flushes EXCEPT
                     ![f].pc = IF Len(flushes[f].sr) = 0 THEN "returned" ELSE "io"]
    /\ UNCHANGED <<cfgVars, batch, mux, initDone, pc, rec, cpc, cflush, obsVars,
                   gateVars>>

\* Lines 222-276, with storeMux held throughout: the operations of Steps
\* run in order up to the first that fails (k), store returns that error
\* wrapped, or nil after the commit. The deferred
\* function unlocks storeMux (line 225). Back in the flush goroutine of Add,
\* a non-nil error is logged (lines 285-287).
StoreRun(f) ==
    /\ flushes[f].pc = "io"
    /\ \E k \in FailAt(Len(flushes[f].sr)) :
         LET steps   == Steps(Len(flushes[f].sr))
             ran     == IF k = 0 THEN steps ELSE SubSeq(steps, 1, k)
             err     == IF k = 0 THEN "nil" ELSE Wrapf(steps[k])
         IN  /\ flushes' = [flushes EXCEPT
                               ![f].pc = "returned", ![f].err = err, ![f].ran = ran,
                               ![f].sql = Sql(ran),
                               ![f].rows = Inserted(flushes[f].sr, ran, err)]
             /\ initDone' = (initDone \/ OnceFires(steps, k))
             /\ makeTableCalls' =
                    IF \E j \in 1..Len(ran) : ran[j] = "create"
                    THEN makeTableCalls + 1 ELSE makeTableCalls
             /\ failures' = IF k = 0 THEN failures ELSE failures + 1
             /\ logged' = IF flushes[f].kind = "async" /\ err # "nil"
                          THEN logged \cup {f} ELSE logged
    /\ storeMux' = NoFlush
    /\ UNCHANGED <<cfgVars, batch, mux, pc, rec, cpc, cflush, calls, appended, addRet,
                   closeCalls, closeRet, lateIds, overlap, gateVars>>

\* One step of store call f.
store(f) ==
    \/ StoreLock(f)
    \/ StoreRun(f)

(* ----------------------------- ClickHouse.Close ----------------------- *)
\* Every Add call the callers will make has returned.
AddsOver == calls = target /\ \A p \in Producers : pc[p] = "idle"

\* How many times the callers call Close.
CloseLimit == IF script = "test" THEN 1 ELSE MaxClose

\* A caller invokes Close, which calls s.store(s.batch)   (line 297): s.batch
\* is read without s.mux. TestClickHouse calls Close after its Add loop.
CloseCall ==
    /\ cpc = "idle"
    /\ closeCalls < CloseLimit
    /\ script = "test" => AddsOver
    /\ flushes' = Append(flushes, NewFlush(batch, "close"))
    /\ cflush' = Len(flushes) + 1
    /\ cpc' = "store"
    /\ closeCalls' = closeCalls + 1
    /\ overlap' = (overlap \/ \E p \in Producers : pc[p] # "idle")
    /\ UNCHANGED <<cfgVars, chVars, pc, rec, calls, appended, addRet, closeRet, failures,
                   makeTableCalls, logged, lateIds, gateVars>>

\* store has returned to Close, its error is dropped; s.batch =
\* []*StatRecord{}   (line 298), written without s.mux; Close returns nothing.
CloseReset ==
    /\ cpc = "store"
    /\ flushes[cflush].pc = "returned"
    /\ batch' = <<>>
    /\ cpc' = "idle"
    /\ cflush' = NoFlush
    /\ closeRet' = Append(closeRet, [flush |-> cflush, ret |-> "nothing"])
    /\ UNCHANGED <<cfgVars, mux, storeMux, initDone, pc, rec, flushes, calls,
                   appended, addRet, closeCalls, failures, makeTableCalls, logged, lateIds,
                   overlap, gateVars>>

(* -------------------------------- AccessLock -------------------------- *)
Unlockers == 1..NumUnlockers
Waiters   == 1..NumWaiters

\* A goroutine calls al.Unlock().
UnlockCall(u) ==
    /\ upc[u] = "idle"
    /\ unlockCalls < MaxUnlocks
    /\ unlockCalls' = unlockCalls + 1
    /\ upc' = [upc EXCEPT ![u] = "lock"]
    /\ UNCHANGED <<cfgVars, chVars, procVars, obsVars, chClosed, closed, amux,
                   wpc, closeCount, panicked, unlockReturns, spurious>>

\* Mutant of UnlockLock: Unlock does not take al.mux.
UnlockLockNoMutex(u) ==
    /\ upc[u] = "lock"
    /\ upc' = [upc EXCEPT ![u] = "check"]
    /\ UNCHANGED <<cfgVars, chVars, procVars, obsVars, chClosed, closed, amux,
                   wpc, closeCount, panicked, unlockCalls, unlockReturns,
                   spurious>>

\* al.mux.Lock()   (part_000 line 21)
UnlockLock(u) ==
    /\ upc[u] = "lock"
    /\ amux = NoOwner
    /\ amux' = u
    /\ upc' = [upc EXCEPT ![u] = "check"]
    /\ UNCHANGED <<cfgVars, chVars, procVars, obsVars, chClosed, closed, wpc,
                   closeCount, panicked, unlockCalls, unlockReturns, spurious>>

\* if !al.closed   (line 23)
UnlockCheck(u) ==
    /\ upc[u] = "check"
    /\ upc' = [upc EXCEPT ![u] = IF ~closed THEN "close" ELSE "unlock"]
    /\ UNCHANGED <<cfgVars, chVars, procVars, obsVars, chClosed, closed, amux,
                   wpc, closeCount, panicked, unlockCalls, unlockReturns,
                   spurious>>

\* Mutant of UnlockClose: the flag is set but al.C is not closed.
UnlockCloseFlagOnly(u) ==
    /\ upc[u] = "close"
    /\ upc' = [upc EXCEPT ![u] = "set"]
    /\ UNCHANGED <<cfgVars, chVars, procVars, obsVars, chClosed, closed, amux,
                   wpc, closeCount, panicked, unlockCalls, unlockReturns,
                   spurious>>

\* close(al.C)   (line 24): closing a closed channel panics, and the panic
\* unwinds through the deferred al.mux.Unlock().
UnlockClose(u) ==
    /\ upc[u] = "close"
    /\ chClosed' = TRUE
    /\ closeCount' = closeCount + 1
    /\ panicked' = (panicked \/ chClosed)
    /\ upc' = [upc EXCEPT ![u] = IF chClosed THEN "unlock" ELSE "set"]
    /\ UNCHANGED <<cfgVars, chVars, procVars, obsVars, closed, amux, wpc,
                   unlockCalls, unlockReturns, spurious>>

\* al.closed = true   (line 25)
UnlockSet(u) ==
    /\ upc[u] = "set"
    /\ closed' = TRUE
    /\ upc' = [upc EXCEPT ![u] = "unlock"]
    /\ UNCHANGED <<cfgVars, chVars, procVars, obsVars, chClosed, amux, wpc,
                   closeCount, panicked, unlockCalls, unlockReturns, spurious>>

\* defer al.mux.Unlock()   (line 22), and Unlock returns.
UnlockReturn(u) ==
    /\ upc[u] = "unlock"
    /\ amux' = NoOwner
    /\ unlockReturns' = unlockReturns + 1
    /\ upc' = [upc EXCEPT ![u] = "idle"]
    /\ UNCHANGED <<cfgVars, chVars, procVars, obsVars, chClosed, closed, wpc,
                   closeCount, panicked, unlockCalls, spurious>>

\* One step of goroutine u inside Unlock.
Unlock(u) ==
    \/ UnlockLock(u)
    \/ UnlockCheck(u)
    \/ UnlockClose(u)
    \/ UnlockSet(u)
    \/ UnlockReturn(u)

\* al.Unlocked() returns al.C   (lines 17-19); the caller then receives on it.
Unlocked(w) ==
    /\ wpc[w] = "idle"
    /\ wpc' = [wpc EXCEPT ![w] = "receive"]
    /\ UNCHANGED <<cfgVars, chVars, procVars, obsVars, chClosed, closed, amux,
                   upc, closeCount, panicked, unlockCalls, unlockReturns,
                   spurious>>

\* Mutant of CanReceive: the receive does not wait for the close.
CanReceiveOpen == TRUE

\* A receive on al.C can complete: nothing in the repository sends on al.C,
\* so only once the channel is closed.
CanReceive == chClosed

\* <-al.Unlocked() completes.
Receive(w) ==
    /\ wpc[w] = "receive"
    /\ CanReceive
    /\ wpc' = [wpc EXCEPT ![w] = "released"]
    /\ spurious' = (spurious \/ unlockCalls = 0)
    /\ UNCHANGED <<cfgVars, chVars, procVars, obsVars, chClosed, closed, amux,
                   upc, closeCount, panicked, unlockCalls, unlockReturns>>

(* ----------------------------- specifications ------------------------- *)
\* A freshly constructed writer and gate: batch size and replication are
\* whatever the flags say; the callers are n goroutines making, in all, a
\* number of Add calls drawn from adds, over a store that fails at most
\* faults times.
Setup(n, adds, how, faults) ==
    /\ batchSize \in 1..MaxBatch
    /\ replicated \in BOOLEAN
    /\ nprod = n
    /\ target \in adds
    /\ script = how
    /\ faultBudget = faults
    /\ NewClickHouse
    /\ Idle
    /\ NewAccessLock

\* A writer used by NumProducers concurrent producers and a closing
\* goroutine, over a store that may fail.
Init == Setup(NumProducers, {MaxAdds}, "free", MaxFailures)

Next ==
    \/ \E p \in Producers : AddCall(p)
    \/ \E p \in Producers : Add(p)
    \/ \E f \in Flushes : store(f)
    \/ CloseCall
    \/ CloseReset

Spec == Init /\ [][Next]_vars

\* TestClickHouse: one goroutine calls Add n times, then Close, over a store
\* that never fails (sqlmock).
TestInit == Setup(1, 0..MaxTestAdds, "test", 0)

TestSpec == TestInit /\ [][Next]_vars

\* Concurrent producers over a store that never fails but may take for
\* ever: the Go scheduler guarantees the producers only that a producer
\* inside Add which can take its next step takes it. Nothing is assumed of
\* the store calls: one may stay in its I/O, holding storeMux, for ever.
LiveInit == Setup(NumProducers, {MaxAdds}, "free", 0)

AddLive ==
    /\ LiveInit
    /\ [][Next]_vars
    /\ \A p \in Producers : WF_vars(Add(p))

\* One AccessLock shared by unlocking and waiting goroutines.
GateInit == Setup(0, {0}, "free", 0)

GateNext ==
    \/ \E u \in Unlockers : UnlockCall(u)
    \/ \E u \in Unlockers : Unlock(u)
    \/ \E w \in Waiters : Unlocked(w)
    \/ \E w \in Waiters : Receive(w)

GateSpec == GateInit /\ [][GateNext]_vars

\* The same, with the Go scheduler's guarantee that a goroutine which can
\* run does run: an Unlock under way goes on, a receive that can complete
\* does. Nothing obliges a caller to call Unlock.
GateLive ==
    /\ GateSpec
    /\ \A u \in Unlockers : WF_vars(Unlock(u))
    /\ \A w \in Waiters : WF_vars(Receive(w))

(* ------------------------------- AccessLock claims -------------------- *)
\* C8: as soon as one Unlock call has returned a receive on al.C completes
\* without waiting, and every goroutine receiving on the channel Unlocked()
\* gave it, whether it got there before or after the Unlock call, gets
\* through once Unlock has been called: none waits for ever.
C8_WaitersUnblock ==
    /\ [](unlockReturns >= 1 => CanReceive)
    /\ \A w \in Waiters :
          (wpc[w] = "receive" /\ unlockCalls >= 1) ~> (wpc[w] = "released")

\* C8 witness: a single Unlock call, and every waiter has been released.
C8_Witness ==
    /\ unlockCalls = 1
    /\ \A w \in Waiters : wpc[w] = "released"

\* C9: whatever the number and interleaving of Unlock calls, al.C is closed
\* at most once (exactly once when a call has returned), no call panics, and
\* every call made has returned when no goroutine is inside Unlock.
C9_UnlockIdempotent ==
    /\ closeCount <= 1
    /\ ~panicked
    /\ unlockReturns >= 1 => (closeCount = 1 /\ chClosed /\ closed)
    /\ (\A u \in Unlockers : upc[u] = "idle") => unlockReturns = unlockCalls

\* C9 witness: several Unlock calls have returned, after one close.
C9_Witness ==
    /\ unlockReturns >= 2
    /\ closeCount = 1

\* C10: no receive on al.C completes before the first Unlock call or while
\* al.C is open, and once al.C is closed (and al.closed set) it stays so.
C10_NoSpuriousNoReopen ==
    /\ [](~spurious)
    /\ [](\A w \in Waiters : wpc[w] = "released" => chClosed)
    /\ [][chClosed => chClosed']_vars
    /\ [][closed => closed']_vars

\* C10 witness: Unlock has been called but has not closed al.C yet, and a
\* waiter is still blocked in its receive.
C10_Witness ==
    /\ unlockCalls >= 1
    /\ ~chClosed
    /\ \E w \in Waiters : wpc[w] = "receive"

(* ------------------------------- ClickHouse claims -------------------- *)
Returned(f) == flushes[f].pc = "returned"

\* Store call f waits for a storeMux that a store call which has returned
\* still holds: it has not run and never will.
Stuck(f) ==
    /\ flushes[f].pc = "lock"
    /\ storeMux # NoFlush
    /\ Returned(storeMux)

\* No store call can take another step.
Quiet == \A f \in Flushes : Returned(f) \/ Stuck(f)

\* How many times record id was passed to store.
Times(id) ==
    Cardinality({x \in Flushes \X (1..calls) :
                    /\ x[2] <= Len(flushes[x[1]].sr)
                    /\ flushes[x[1]].sr[x[2]] = id})

Async  == {f \in Flushes : flushes[f].kind = "async"}
Closes == {f \in Flushes : flushes[f].kind = "close"}

\* Store call f ran to its commit.
Committed(f) ==
    /\ Returned(f)
    /\ flushes[f].err = "nil"
    /\ Len(flushes[f].ran) > 0
    /\ flushes[f].ran[Len(flushes[f].ran)] = "commit"

\* C1: once every Add call, every flush goroutine and one final Close
\* (called after the last Add returned) have finished, every added record
\* was passed to store exactly once: in a threshold batch of exactly
\* batchSize records or in the one batch of Close.
C1_EveryRecordStoredOnce ==
    ( /\ \A p \in Producers : pc[p] = "idle"
      /\ Len(closeRet) = 1
      /\ cpc = "idle"
      /\ ~overlap
      /\ \A f \in Flushes : Returned(f) )
    => /\ \A id \in 1..calls : Times(id) = 1
       /\ \A f \in Async : Len(flushes[f].sr) = batchSize
       /\ Cardinality(Closes) = 1

\* C2: in the sequence of TestClickHouse (n Add calls by one goroutine, then
\* Close, the store never failing): after the last Add, n mod B records are
\* pending and n div B threshold batches of B records each went to store;
\* once Close has returned and no store call can go further, each of these
\* batches was committed, Close passed the n mod B pending records to store
\* and the live batch is empty.
C2_TestFlushes ==
    /\ (AddsOver /\ closeCalls = 0)
       => /\ Len(batch) = target % batchSize
          /\ Cardinality(Async) = target \div batchSize
          /\ \A f \in Async : Len(flushes[f].sr) = batchSize
    /\ (AddsOver /\ Len(closeRet) = 1 /\ Quiet)
       => /\ Cardinality(Async) = target \div batchSize
          /\ \A f \in Async : Len(flushes[f].sr) = batchSize /\ Committed(f)
          /\ Len(flushes[closeRet[1].flush].sr) = target % batchSize
          /\ Len(batch) = 0

\* C3: every Add call returns, whatever the store calls do: a producer that
\* is inside Add gets out of it although no store call is ever obliged to
\* finish its I/O or to release storeMux.
C3_AddNeverBlocksOnStore ==
    \A p \in Producers : (pc[p] # "idle") ~> (pc[p] = "idle")

\* C3 witness: a store call holds storeMux inside its I/O while a producer
\* is inside the critical section of Add.
C3_Witness ==
    /\ \E f \in Flushes : flushes[f].pc = "io" /\ storeMux = f
    /\ \E p \in Producers : mux = p /\ pc[p] \in {"append", "reset"}

\* C4: every Add call that has returned appended its record and returned
\* nil, whatever store calls failed before, during or after it.
C4_AddNeverFails ==
    \A id \in DOMAIN addRet : addRet[id] = "nil" /\ id \in appended

\* C4 witness: s.db.Get failed in the store call of Close; an Add called
\* before that Close and an Add called after it returned have returned nil.
C4_Witness ==
    \E i \in 1..Len(closeRet) :
       /\ flushes[closeRet[i].flush].err = "Failed to get ClickHouse DB"
       /\ \E id \in DOMAIN addRet :
             /\ id \in lateIds
             /\ addRet[id] = "nil"
       /\ \E j \in 1..Len(flushes[closeRet[i].flush].sr) :
             /\ flushes[closeRet[i].flush].sr[j] \in DOMAIN addRet
             /\ addRet[flushes[closeRet[i].flush].sr[j]] = "nil"

\* Store call f ran makeTable.
Creates(f) == \E j \in 1..Len(flushes[f].ran) : flushes[f].ran[j] = "create"

\* C5: makeTable runs at most once per writer, the Once being consumed by
\* that run whether it succeeded or failed; the store call whose makeTable
\* failed returns "Failed to create table"; every other store call that got
\* a handle skips makeTable and goes straight on to the ping.
C5_MakeTableOnce ==
    /\ makeTableCalls <= 1
    /\ Cardinality({f \in Flushes : Creates(f)}) <= 1
    /\ makeTableCalls = 1 => initDone
    /\ \A f \in Flushes :
          /\ (Creates(f) /\ flushes[f].err # "nil"
                /\ flushes[f].ran[Len(flushes[f].ran)] \in {"create", "createAll"})
             => flushes[f].err = "Failed to create table"
          /\ (Returned(f) /\ Len(flushes[f].ran) >= 2 /\ ~Creates(f))
             => flushes[f].ran[2] = "ping"

\* C5 witness: makeTable failed in one store call, and another store call
\* then skipped it, pinged and committed its batch.
C5_Witness ==
    \E f, g \in Flushes :
       /\ Creates(f)
       /\ flushes[f].err = "Failed to create table"
       /\ ~Creates(g)
       /\ Committed(g)
       /\ flushes[g].ran[2] = "ping"

\* The callers have made all their calls, every call has returned and no
\* store call can go further: nothing will happen any more.
Final ==
    /\ AddsOver
    /\ cpc = "idle"
    /\ closeCalls = CloseLimit
    /\ Quiet

\* C6: no record whose Add was called after Close returned, and returned
\* nil, is left without ever being passed to store.
C6_NoLateRecordLost ==
    Final => \A id \in lateIds : addRet[id] = "nil" => Times(id) >= 1

\* C7: a Close whose store call failed returns that wrapped error to its
\* caller; a failed store call of a flush goroutine is logged, and Add
\* returns nil all the same.
C7_CloseReturnsError ==
    /\ \A i \in 1..Len(closeRet) :
          flushes[closeRet[i].flush].err # "nil"
             => closeRet[i].ret = flushes[closeRet[i].flush].err
    /\ \A f \in Async : (Returned(f) /\ flushes[f].err # "nil") => f \in logged
    /\ \A id \in DOMAIN addRet : addRet[id] = "nil"


\* Store call f has begun the store steps of lines 227-271, or is past them.
Begun(f) == flushes[f].pc = "io" \/ Len(flushes[f].ran) > 0

\* C11: batches are committed in detachment order: of two batches that Add
\* detached, the one detached first has had its insert transaction
\* committed or aborted, its store call having returned, before the store
\* call of the later one begins its store steps.
C11_CommitInDetachmentOrder ==
    \A f, g \in Async :
        (f < g /\ Len(flushes[f].sr) > 0 /\ Begun(g)) => Returned(f)

\* Store call f returned an error.
Failed(f) == Returned(f) /\ flushes[f].err # "nil"

CreatesSent(f) ==
    SelectSeq(flushes[f].sql, LAMBDA q : q[1] = "CREATE TABLE IF NOT EXISTS")
InsertsSent(f) == SelectSeq(flushes[f].sql, LAMBDA q : q[1] = "INSERT INTO")

\* The tables named by a sequence of statements, in order.
Tables(sql) == [j \in 1..Len(sql) |-> sql[j][2]]

\* C13: in replicated mode provisioning sends two create statements in
\* order, proxy_stat then proxy_stat_all, the second only after the first
\* succeeded, and every insert names proxy_stat_all; otherwise it sends one
\* create statement, for proxy_stat, and every insert names proxy_stat. A
\* provisioning that did not fail sent all its create statements, and all
\* store calls together send each create statement at most once.
C13_TablesByMode ==
    LET all == IF replicated THEN <<"proxy_stat", "proxy_stat_all">>
                             ELSE <<"proxy_stat">>
        ins == IF replicated THEN "proxy_stat_all" ELSE "proxy_stat"
    IN  /\ \A f \in Flushes :
             LET made == Tables(CreatesSent(f))
             IN  /\ made \in {SubSeq(all, 1, n) : n \in 0..Len(all)}
                 /\ (Len(made) > 0 /\ Len(made) < Len(all)) =>
                        flushes[f].err = "Failed to create table"
                 /\ (Len(made) > 0 /\ flushes[f].err # "Failed to create table") =>
                        made = all
                 /\ \A j \in 1..Len(InsertsSent(f)) : InsertsSent(f)[j][2] = ins
                 /\ \A j \in 1..Len(flushes[f].sql) :
                        flushes[f].sql[j][1] = "INSERT INTO" => j = Len(flushes[f].sql)
        /\ Cardinality({g \in Flushes : Len(CreatesSent(g)) > 0}) <= 1

\* C13 witness: in replicated mode a store call created both tables and
\* committed its insert into proxy_stat_all, and a later store call, which
\* created nothing, committed too.
C13_Witness ==
    /\ replicated
    /\ \E f, g \in Flushes :
         /\ f # g
         /\ Committed(f) /\ Committed(g)
         /\ Tables(flushes[f].sql) = <<"proxy_stat", "proxy_stat_all", "proxy_stat_all">>
         /\ Tables(flushes[g].sql) = <<"proxy_stat_all">>

\* C14: the detach in Add is atomic with respect to concurrent Add calls:
\* every batch handed to a flush goroutine by a threshold crossing holds
\* exactly batchSize records, and s.batch never holds more than batchSize.
C14_DetachAtomic ==
    /\ \A f \in Async : Len(flushes[f].sr) = batchSize
    /\ Len(batch) <= batchSize

\* C15: a store call on an empty batch is a no-op: it runs no store
\* operation, returns nil, and when it has returned storeMux is free of it.
C15_EmptyFlushNoOp ==
    \A f \in Flushes :
        (Returned(f) /\ Len(flushes[f].sr) = 0) =>
            /\ flushes[f].ran = <<>>
            /\ flushes[f].err = "nil"
            /\ storeMux # f

\* C16: the flush path cannot deadlock: a store call that has not returned
\* can take its next step, or waits for storeMux while the store call
\* holding it is still running and will unlock; and so Close, which waits
\* for its store call, returns.
C16_FlushPathDeadlockFree ==
    \A f \in Flushes :
        \/ Returned(f)
        \/ ENABLED store(f)
        \/ (storeMux # NoFlush /\ ~Returned(storeMux))

\* The store calls that are in the store steps of lines 227-271.
InStore == {f \in Flushes : flushes[f].pc = "io"}

\* C17: flushes are mutually exclusive: at most one store call at a time is
\* in the store steps (provisioning included), and it holds storeMux.
C17_FlushesExclusive ==
    /\ Cardinality(InStore) <= 1
    /\ \A f \in InStore : storeMux = f

\* C17 witness: a store call is in its store steps while the store call of
\* another non-empty batch waits for storeMux.
C17_Witness ==
    \E f, g \in Flushes :
        /\ flushes[f].pc = "io"
        /\ flushes[g].pc = "lock"
        /\ Len(flushes[g].sr) > 0

\* C18: s.batch is accessed only under s.mux: a step that writes s.batch
\* (append, replacement, the reset of Close) or that captures it for a
\* store call (the go statement of Add, the store call of Close) is taken
\* while s.mux is held.
C18_BatchOnlyUnderMux ==
    [][(batch' # batch \/ Len(flushes') > Len(flushes)) => mux # NoOwner]_vars

\* C19: no task holds s.mux and storeMux together, and no store operation
\* is performed under s.mux: s.mux is held only by a producer, and only
\* between a Lock and the Unlock that follows the append or the reset,
\* where Add neither starts a flush nor calls store; storeMux is held only
\* by store calls, which run in the flush goroutines and in Close.
C19_LocksNeverNested ==
    /\ mux \in Producers \cup {NoOwner}
    /\ \A p \in Producers : mux = p => pc[p] \in {"append", "reset"}
    /\ storeMux \in Flushes \cup {NoFlush}
    /\ \A f \in InStore : storeMux = f

\* C19 witness: both locks are held at once, by different tasks: a producer
\* is between Lock and Unlock while a store call is in its store steps.
C19_Witness ==
    /\ mux # NoOwner
    /\ storeMux # NoFlush
    /\ flushes[storeMux].pc = "io"

\* Store call f returned because s.db.Get failed.
GetFailed(f) == Returned(f) /\ flushes[f].err = "Failed to get ClickHouse DB"

\* C20: a store call of a non-empty batch in which s.db.Get fails returns
\* the wrapped error without side effects: it sent no statement and left no
\* row, storeMux is free of it once it has returned, and it did not consume
\* the Once: the Once is consumed only by a store call that ran makeTable,
\* so no insert transaction is begun before some store call has run
\* makeTable.
C20_GetFailureNoSideEffect ==
    /\ \A f \in Flushes : GetFailed(f) =>
          /\ Len(flushes[f].sr) > 0
          /\ flushes[f].ran = <<"get">>
          /\ flushes[f].sql = <<>>
          /\ flushes[f].rows = <<>>
          /\ storeMux # f
    /\ initDone => \E f \in Flushes : Creates(f)
    /\ \A g \in Flushes :
          (\E j \in 1..Len(flushes[g].ran) : flushes[g].ran[j] = "begin")
             => initDone /\ \E f \in Flushes : Creates(f)

\* C20 witness: s.db.Get has failed in one store call, the Once is not
\* consumed, and the next store call is in its store steps, with makeTable
\* ahead of it.
C20_Witness ==
    \E f, g \in Flushes :
        /\ GetFailed(f)
        /\ ~initDone
        /\ flushes[g].pc = "io"
        /\ Steps(Len(flushes[g].sr))[2] = "create"
=============================================================================
